---- MODULE Spec2Model ----
(***************************************************************************)
(* api_fetch.py: fetch a JSON document with a bounded retry loop           *)
(* (get_json), normalise it into rows (to_rows), write the rows as CSV     *)
(* (write_csv), and report the outcome (main).                             *)
(*                                                                         *)
(* Python str values are modelled as Text: sequences of one-character      *)
(* strings, so that rendering (json.dumps, str) and ordering (sorted) are  *)
(* computed rather than assumed.  A JSON value is a record tagged by "t".  *)
(* A dict is a function from its keys (Text) to JSON values; the insertion *)
(* order of a dict is not represented (write_csv reads keys only through   *)
(* set.update and sorted).                                                 *)
(***************************************************************************)
EXTENDS Integers, Sequences, FiniteSets, TLC

VARIABLES
    retries,        \* args.retries
    max_rows,       \* args.max_rows
    outDir,         \* os.path.dirname(args.out), a Text ("" when --out has no directory)
    jsonErrIsRequestException,
                    \* whether the installed requests raises a RequestException
                    \* subclass from r.json() (requests >= 2.27) or a plain ValueError
    pc,             \* position of the single thread of control
    attempt,        \* get_json: loop variable
    backoff,        \* get_json: current backoff
    outcomes,       \* history: outcome of each requests.get issued so far
    sleeps,         \* history: time.sleep calls, [after |-> attempt, dur |-> seconds]
    data,           \* value returned by get_json (NoValue before that)
    rows,           \* write_csv: rows after list() and truncation
    header,         \* write_csv: sorted header
    written,        \* write_csv: number of writerow calls that completed
    n,              \* main: value returned by write_csv (-1 before that)
    exc,            \* exception propagating to main's handler (NoExc if none)
    writeCsvCalled, \* history: write_csv has been entered
    dirExists,      \* file system: the destination directory exists
    file,           \* file system: the destination file
    dirExists0,     \* file system before the run
    file0,
    log,            \* records sent to the logging module
    stdout,
    stderr,
    exitCode        \* sys.exit status (-1 while running)

vars == <<retries, max_rows, outDir, jsonErrIsRequestException, pc, attempt,
          backoff, outcomes, sleeps, data, rows, header, written, n, exc,
          writeCsvCalled, dirExists, file, dirExists0, file0, log, stdout,
          stderr, exitCode>>

(***************************************************************************)
(* Bounds of the model.                                                    *)
(***************************************************************************)
MaxRetries == 3
MaxRowsCap == 2
MaxLen == 2

(***************************************************************************)
(* Text.                                                                   *)
(***************************************************************************)
EmptyText == << >>

\* Unicode code point of the characters the model uses (Python compares str
\* by code point).
Ord(c) ==
    CASE c = "\"" -> 34
      [] c = "'"  -> 39
      [] c = " "  -> 32
      [] c = ","  -> 44
      [] c = "0"  -> 48
      [] c = "1"  -> 49
      [] c = "2"  -> 50
      [] c = "3"  -> 51
      [] c = "4"  -> 52
      [] c = "5"  -> 53
      [] c = "6"  -> 54
      [] c = "7"  -> 55
      [] c = "8"  -> 56
      [] c = "9"  -> 57
      [] c = ":"  -> 58
      [] c = "B"  -> 66
      [] c = "F"  -> 70
      [] c = "N"  -> 78
      [] c = "T"  -> 84
      [] c = "["  -> 91
      [] c = "]"  -> 93
      [] c = "a"  -> 97
      [] c = "b"  -> 98
      [] c = "d"  -> 100
      [] c = "e"  -> 101
      [] c = "f"  -> 102
      [] c = "k"  -> 107
      [] c = "l"  -> 108
      [] c = "n"  -> 110
      [] c = "o"  -> 111
      [] c = "r"  -> 114
      [] c = "s"  -> 115
      [] c = "t"  -> 116
      [] c = "u"  -> 117
      [] c = "v"  -> 118
      [] c = "x"  -> 120
      [] c = "{"  -> 123
      [] c = "}"  -> 125

\* s < t for Python str: lexicographic by code point, a proper prefix first.
RECURSIVE StrLess(_, _)
StrLess(s, t) ==
    IF t = << >> THEN FALSE
    ELSE IF s = << >> THEN TRUE
    ELSE IF Ord(Head(s)) # Ord(Head(t)) THEN Ord(Head(s)) < Ord(Head(t))
    ELSE StrLess(Tail(s), Tail(t))

Digit(d) == CASE d = 0 -> "0" [] d = 1 -> "1" [] d = 2 -> "2" [] d = 3 -> "3"
              [] d = 4 -> "4" [] d = 5 -> "5" [] d = 6 -> "6" [] d = 7 -> "7"
              [] d = 8 -> "8" [] d = 9 -> "9"

\* Decimal text of a natural number (str(n) and json.dumps(n) agree on it).
RECURSIVE IntText(_)
IntText(i) == IF i < 10 THEN << Digit(i) >>
              ELSE IntText(i \div 10) \o << Digit(i % 10) >>

(***************************************************************************)
(* JSON values, as json.loads builds them.                                 *)
(***************************************************************************)
Null == [t |-> "null"]
Bool(b) == [t |-> "bool", b |-> b]
Num(i) == [t |-> "num", i |-> i]
Str(s) == [t |-> "str", s |-> s]
Arr(items) == [t |-> "arr", items |-> items]
Obj(m) == [t |-> "obj", m |-> m]

NoValue == [t |-> "novalue"]

\* sorted(S) for a set of str.
RECURSIVE Sorted(_)
Sorted(S) ==
    IF S = {} THEN << >>
    ELSE LET m == CHOOSE x \in S : \A y \in S \ {x} : StrLess(x, y)
         IN  << m >> \o Sorted(S \ {m})

\* sep.join(parts)
RECURSIVE Join(_, _)
Join(parts, sep) ==
    IF parts = << >> THEN << >>
    ELSE IF Len(parts) = 1 THEN parts[1]
    ELSE parts[1] \o sep \o Join(Tail(parts), sep)

\* json.dumps(v, ensure_ascii=False): default separators ", " and ": ".
\* The model's strings need no escaping.  The keys of a nested object are
\* taken in sorted order (the model's nested objects have one key).
RECURSIVE JsonDumps(_)
JsonDumps(v) ==
    CASE v.t = "null" -> << "n", "u", "l", "l" >>
      [] v.t = "bool" -> IF v.b THEN << "t", "r", "u", "e" >>
                         ELSE << "f", "a", "l", "s", "e" >>
      [] v.t = "num"  -> IntText(v.i)
      [] v.t = "str"  -> << "\"" >> \o v.s \o << "\"" >>
      [] v.t = "arr"  ->
            << "[" >>
            \o Join([j \in 1..Len(v.items) |-> JsonDumps(v.items[j])], << ",", " " >>)
            \o << "]" >>
      [] v.t = "obj"  ->
            LET ks == Sorted(DOMAIN v.m)
            IN  << "{" >>
                \o Join([j \in 1..Len(ks) |->
                            << "\"" >> \o ks[j] \o << "\"", ":", " " >>
                            \o JsonDumps(v.m[ks[j]])],
                        << ",", " " >>)
                \o << "}" >>

(***************************************************************************)
(* Python's renderings of a value.                                         *)
(***************************************************************************)
\* repr(v) for the values json.loads builds; str(v) differs from it only on
\* str, which CsvField never passes.  The model's strings hold no quote
\* or backslash, so repr of a str is the str in single quotes.
RECURSIVE PyRepr(_)
PyRepr(v) ==
    CASE v.t = "null" -> << "N", "o", "n", "e" >>
      [] v.t = "bool" -> IF v.b THEN << "T", "r", "u", "e" >>
                         ELSE << "F", "a", "l", "s", "e" >>
      [] v.t = "num"  -> IntText(v.i)
      [] v.t = "str"  -> << "'" >> \o v.s \o << "'" >>
      [] v.t = "arr"  ->
            << "[" >>
            \o Join([j \in 1..Len(v.items) |-> PyRepr(v.items[j])], << ",", " " >>)
            \o << "]" >>
      [] v.t = "obj"  ->
            LET ks == Sorted(DOMAIN v.m)
            IN  << "{" >>
                \o Join([j \in 1..Len(ks) |->
                            << "'" >> \o ks[j] \o << "'", ":", " " >>
                            \o PyRepr(v.m[ks[j]])],
                        << ",", " " >>)
                \o << "}" >>

\* The text csv.writer puts in a field: None is written as the empty string,
\* a str as itself, anything else as str(value).  Quoting is not modelled: a
\* line of the file is the sequence of its fields' texts.
CsvField(v) ==
    CASE v.t = "null" -> EmptyText
      [] v.t = "str"  -> v.s
      [] OTHER        -> PyRepr(v)

(***************************************************************************)
(* to_rows                                                                 *)
(***************************************************************************)
ValueKey == << "v", "a", "l", "u", "e" >>

\* {"value": json.dumps(item, ensure_ascii=False)}
ValueRow(item) == [k \in {ValueKey} |-> Str(JsonDumps(item))]

\* The rows the generator yields, in order.
to_rows(obj) ==
    IF obj.t = "arr"
    THEN [j \in 1..Len(obj.items) |->
            IF obj.items[j].t = "obj" THEN obj.items[j].m
            ELSE ValueRow(obj.items[j])]
    ELSE IF obj.t = "obj" THEN << obj.m >>
    ELSE << ValueRow(obj) >>

(***************************************************************************)
(* write_csv: the parts that compute                                       *)
(***************************************************************************)
Min(a, b) == IF a < b THEN a ELSE b

\* rows[-max_rows:]: the last rows instead of the first.
TruncateKeepsTail(rs, cap) ==
    IF cap # 0 /\ cap > 0
    THEN SubSeq(rs, Len(rs) - Min(cap, Len(rs)) + 1, Len(rs))
    ELSE rs

\* if max_rows and max_rows > 0: rows = rows[:max_rows]
Truncate(rs, cap) ==
    IF cap # 0 /\ cap > 0 THEN SubSeq(rs, 1, Min(cap, Len(rs))) ELSE rs

\* The emptiness check left out.
NoRowsNeverRaises(rs) == FALSE

\* if not rows
NoRows(rs) == rs = << >>

\* The header taken from the first row alone.
HeaderOfFirstRow(rs) == Sorted(DOMAIN rs[1])

\* header = set(); header.update(r.keys()) for each r; sorted(header)
HeaderOf(rs) == Sorted(UNION {DOMAIN rs[j] : j \in 1..Len(rs)})

\* r.get(k, "")
Get(r, k) == IF k \in DOMAIN r THEN r[k] ELSE Str(EmptyText)

\* w.writerow({k: r.get(k, "") for k in header}): the fields in header order
RowLine(r, hdr) == [j \in 1..Len(hdr) |-> CsvField(Get(r, hdr[j]))]

\* w.writeheader(): the field names, which are str
HeaderLine(hdr) == [j \in 1..Len(hdr) |-> CsvField(Str(hdr[j]))]

(***************************************************************************)
(* Inputs: what the endpoint may answer, and the run's configuration.      *)
(***************************************************************************)
\* Status codes on both sides of each end of [200, 300).
StatusCodes == {199, 200, 299, 300, 500}

ObjKeys == { << "a" >>, << "b" >> }

SeqsUpTo(S, len) == UNION {[1..k -> S] : k \in 0..len}

\* Bodies of the full pipeline's endpoint: arrays of small objects.
BasicObjects == { Obj([k \in {<< "a" >>} |-> Num(1)]), Obj([k \in {<< "b" >>} |-> Num(2)]) }
BasicPayloads == { Arr(items) : items \in SeqsUpTo(BasicObjects, MaxLen) }

\* Directory part of --out: none, or a directory "d".
OutDirs == { EmptyText, << "d" >> }

AbsentFile == [exists |-> FALSE, lines |-> << >>]
OldFile == [exists |-> TRUE, lines |-> << << << "o", "l", "d" >> >> >>]

(***************************************************************************)
(* Exceptions and output records.                                          *)
(***************************************************************************)
NoExc == [cls |-> "none", msg |-> "", arg |-> 0]
\* RuntimeError(f"Failed to fetch {url} after {retries} attempts.")
FetchFailed(r) == [cls |-> "RuntimeError", msg |-> "Failed to fetch after attempts", arg |-> r]
\* RuntimeError("No rows to write.")
NoRowsError == [cls |-> "RuntimeError", msg |-> "No rows to write.", arg |-> 0]
\* what r.json() raises where it is no RequestException
JsonValueError == [cls |-> "ValueError", msg |-> "JSONDecodeError", arg |-> 0]
\* what os.makedirs, open and the file's write raise
OsError == [cls |-> "OSError", msg |-> "OSError", arg |-> 0]

Warning(msg, arg) == [level |-> "WARNING", msg |-> msg, arg |-> arg]

cfgVars == <<retries, max_rows, outDir, jsonErrIsRequestException, dirExists0, file0>>
fsVars == <<dirExists, file>>
wcVars == <<rows, header, written, n, writeCsvCalled>>
outVars == <<stdout, stderr, exitCode>>

(***************************************************************************)
(* The run starts in main with the arguments parsed and logging set up,    *)
(* entering get_json: backoff = 1.0 and the first iteration of the loop.   *)
(***************************************************************************)
InitConfig ==
    /\ retries \in 1..MaxRetries
    /\ max_rows \in 0..MaxRowsCap
    /\ jsonErrIsRequestException \in BOOLEAN
    /\ outDir \in OutDirs
    /\ dirExists0 \in BOOLEAN
    /\ file0 \in {AbsentFile, OldFile}
    /\ outDir = EmptyText => dirExists0
    /\ file0.exists => dirExists0
    /\ dirExists = dirExists0
    /\ file = file0

InitRun ==
    /\ rows = << >>
    /\ header = << >>
    /\ written = 0
    /\ n = -1
    /\ exc = NoExc
    /\ writeCsvCalled = FALSE
    /\ log = << >>
    /\ stdout = << >>
    /\ stderr = << >>
    /\ exitCode = -1

Init ==
    /\ InitConfig
    /\ InitRun
    /\ pc = "get_json"
    /\ attempt = 1
    /\ backoff = 1
    /\ outcomes = << >>
    /\ sleeps = << >>
    /\ data = NoValue

(***************************************************************************)
(* get_json: one action per outcome of an iteration of the loop.           *)
(***************************************************************************)
\* 200 <= r.status_code < 300
IsSuccess(status) == 200 <= status /\ status < 300

\* if attempt < retries
MoreAttempts(a, r) == a < r

\* backoff *= 2
NextBackoff(b) == b * 2

\* A loop that ends without the raise: the function returns None.
AfterFailureReturnsNone ==
    IF MoreAttempts(attempt, retries)
    THEN /\ sleeps' = Append(sleeps, [after |-> attempt, dur |-> backoff])
         /\ backoff' = NextBackoff(backoff)
         /\ attempt' = attempt + 1
         /\ pc' = "get_json"
         /\ UNCHANGED <<exc, data>>
    ELSE /\ data' = Null
         /\ pc' = "write_csv"
         /\ UNCHANGED <<exc, sleeps, backoff, attempt>>

\* The rest of an iteration whose attempt failed and was logged: sleep and
\* double the backoff if attempts remain; when the loop ends, raise.
AfterFailure ==
    IF MoreAttempts(attempt, retries)
    THEN /\ sleeps' = Append(sleeps, [after |-> attempt, dur |-> backoff])
         /\ backoff' = NextBackoff(backoff)
         /\ attempt' = attempt + 1
         /\ pc' = "get_json"
         /\ UNCHANGED <<exc, data>>
    ELSE /\ exc' = FetchFailed(retries)
         /\ pc' = "except"
         /\ UNCHANGED <<sleeps, backoff, attempt, data>>

\* requests.get raises a RequestException (connection error, timeout, ...)
GetTransportError ==
    /\ pc = "get_json"
    /\ outcomes' = Append(outcomes, [kind |-> "transport"])
    /\ log' = Append(log, Warning("Request error", attempt))
    /\ AfterFailure
    /\ UNCHANGED <<cfgVars, fsVars, wcVars, outVars>>

\* a response whose status is outside [200, 300)
GetBadStatus ==
    /\ pc = "get_json"
    /\ \E status \in StatusCodes :
        /\ ~IsSuccess(status)
        /\ outcomes' = Append(outcomes, [kind |-> "response", status |-> status, json |-> FALSE])
        /\ log' = Append(log, Warning("HTTP", status))
    /\ AfterFailure
    /\ UNCHANGED <<cfgVars, fsVars, wcVars, outVars>>

\* a response in [200, 300) whose body parses: return r.json()
GetOkJson ==
    /\ pc = "get_json"
    /\ \E status \in StatusCodes, body \in BasicPayloads :
        /\ IsSuccess(status)
        /\ outcomes' = Append(outcomes, [kind |-> "response", status |-> status, json |-> TRUE])
        /\ data' = body
    /\ pc' = "write_csv"
    /\ UNCHANGED <<cfgVars, fsVars, wcVars, outVars, attempt, backoff, sleeps, exc, log>>

\* a response in [200, 300) whose body does not parse: r.json() raises inside
\* the try.  requests >= 2.27 raises requests.exceptions.JSONDecodeError, a
\* RequestException, which the except clause catches; older versions raise a
\* ValueError, which leaves get_json.
GetOkBadJson ==
    /\ pc = "get_json"
    /\ \E status \in StatusCodes :
        /\ IsSuccess(status)
        /\ outcomes' = Append(outcomes, [kind |-> "response", status |-> status, json |-> FALSE])
    /\ IF jsonErrIsRequestException
       THEN /\ log' = Append(log, Warning("Request error", attempt))
            /\ AfterFailure
       ELSE /\ exc' = JsonValueError
            /\ pc' = "except"
            /\ UNCHANGED <<log, sleeps, backoff, attempt, data>>
    /\ UNCHANGED <<cfgVars, fsVars, wcVars, outVars>>

(***************************************************************************)
(* write_csv: entry up to the header, then one action per file operation.  *)
(***************************************************************************)
\* return len(rows)
ReturnValue(rs) == Len(rs)

\* rows = list(rows) runs to_rows(data); truncate; raise if empty; header.
WriteCsvEnter ==
    /\ pc = "write_csv"
    /\ writeCsvCalled' = TRUE
    /\ LET rs == Truncate(to_rows(data), max_rows)
       IN  /\ rows' = rs
           /\ IF NoRows(rs)
              THEN /\ exc' = NoRowsError
                   /\ pc' = "except"
                   /\ header' = header
              ELSE /\ header' = HeaderOf(rs)
                   /\ pc' = "makedirs"
                   /\ exc' = exc
    /\ UNCHANGED <<cfgVars, fsVars, outVars, attempt, backoff, outcomes, sleeps,
                   data, written, n, log>>

\* os.makedirs(os.path.dirname(out_path), exist_ok=True): raises
\* FileNotFoundError for the empty dirname; creating a directory may fail.
Makedirs ==
    /\ pc = "makedirs"
    /\ \E ok \in BOOLEAN :
        IF outDir # EmptyText /\ (ok \/ dirExists)
        THEN /\ dirExists' = TRUE
             /\ pc' = "open"
             /\ exc' = exc
        ELSE /\ exc' = OsError
             /\ pc' = "except"
             /\ dirExists' = dirExists
    /\ UNCHANGED <<cfgVars, wcVars, outVars, attempt, backoff, outcomes, sleeps,
                   data, log, file>>

\* open(out_path, "w"): creates the file or truncates it; may fail.
Open ==
    /\ pc = "open"
    /\ \E ok \in BOOLEAN :
        IF ok
        THEN /\ file' = [exists |-> TRUE, lines |-> << >>]
             /\ pc' = "writeheader"
             /\ exc' = exc
        ELSE /\ exc' = OsError
             /\ pc' = "except"
             /\ file' = file
    /\ UNCHANGED <<cfgVars, wcVars, outVars, attempt, backoff, outcomes, sleeps,
                   data, log, dirExists>>

\* w.writeheader(); on failure the with block closes the file and the
\* exception leaves write_csv.
WriteHeader ==
    /\ pc = "writeheader"
    /\ \E ok \in BOOLEAN :
        IF ok
        THEN /\ file' = [file EXCEPT !.lines = Append(@, HeaderLine(header))]
             /\ pc' = "writerow"
             /\ exc' = exc
        ELSE /\ exc' = OsError
             /\ pc' = "except"
             /\ file' = file
    /\ UNCHANGED <<cfgVars, wcVars, outVars, attempt, backoff, outcomes, sleeps,
                   data, log, dirExists>>

\* for r in rows: w.writerow({k: r.get(k, "") for k in header})
WriteRow ==
    /\ pc = "writerow"
    /\ written < Len(rows)
    /\ \E ok \in BOOLEAN :
        IF ok
        THEN /\ file' = [file EXCEPT !.lines = Append(@, RowLine(rows[written + 1], header))]
             /\ written' = written + 1
             /\ pc' = pc
             /\ exc' = exc
        ELSE /\ exc' = OsError
             /\ pc' = "except"
             /\ UNCHANGED <<file, written>>
    /\ UNCHANGED <<cfgVars, outVars, attempt, backoff, outcomes, sleeps, data,
                   log, dirExists, rows, header, n, writeCsvCalled>>

\* the loop is over: the file is closed and write_csv returns len(rows)
WriteCsvReturn ==
    /\ pc = "writerow"
    /\ written = Len(rows)
    /\ n' = ReturnValue(rows)
    /\ pc' = "main_ok"
    /\ UNCHANGED <<cfgVars, fsVars, outVars, attempt, backoff, outcomes, sleeps,
                   data, log, exc, rows, header, written, writeCsvCalled>>

(***************************************************************************)
(* main                                                                    *)
(***************************************************************************)
SuccessExitCode == 0
FailureExitCode == 1

\* msg = f"Wrote {n} rows to {args.out}"; print(msg); logging.info(msg); sys.exit(0)
MainSuccess ==
    /\ pc = "main_ok"
    /\ stdout' = Append(stdout, [text |-> "Wrote rows to", arg |-> n])
    /\ log' = Append(log, [level |-> "INFO", msg |-> "Wrote rows to", arg |-> n])
    /\ exitCode' = SuccessExitCode
    /\ pc' = "exit"
    /\ UNCHANGED <<cfgVars, fsVars, wcVars, attempt, backoff, outcomes, sleeps,
                   data, exc, stderr>>

\* except Exception as e: err = f"ERROR: {e}"; print(err, file=sys.stderr);
\* logging.error(err); sys.exit(1)
MainExcept ==
    /\ pc = "except"
    /\ stderr' = Append(stderr, [prefix |-> "ERROR: ", msg |-> exc.msg, arg |-> exc.arg])
    /\ log' = Append(log, [level |-> "ERROR", msg |-> exc.msg, arg |-> exc.arg])
    /\ exitCode' = FailureExitCode
    /\ pc' = "exit"
    /\ UNCHANGED <<cfgVars, fsVars, wcVars, attempt, backoff, outcomes, sleeps,
                   data, exc, stdout>>

(***************************************************************************)
(* The pipeline.                                                           *)
(***************************************************************************)
Next ==
    \/ GetTransportError
    \/ GetBadStatus
    \/ GetOkJson
    \/ GetOkBadJson
    \/ WriteCsvEnter
    \/ Makedirs
    \/ Open
    \/ WriteHeader
    \/ WriteRow
    \/ WriteCsvReturn
    \/ MainSuccess
    \/ MainExcept

Spec == Init /\ [][Next]_vars

(***************************************************************************)
(* The pipeline from the return of get_json on: main line 89 with a body   *)
(* drawn from every shape to_rows distinguishes and every kind of cell.    *)
(***************************************************************************)
DefaultRetries == 3

CellsOf(k) ==
    IF k = << "a" >>
    THEN { Num(1), Str(<< "x" >>), Bool(TRUE) }
    ELSE { Null, Arr(<< Num(1), Str(<< "x" >>) >>), Obj([j \in {<< "k" >>} |-> Num(1)]) }

RichObjects ==
    { Obj(m) : m \in UNION { { f \in [S -> UNION {CellsOf(k) : k \in ObjKeys}] :
                                 \A k \in S : f[k] \in CellsOf(k) } :
                             S \in SUBSET ObjKeys } }

Scalars == { Null, Bool(FALSE), Num(7), Str(<< "x" >>) }

RichPayloads ==
    { Arr(items) : items \in SeqsUpTo(RichObjects \cup {Num(7)}, MaxLen) }
    \cup RichObjects \cup Scalars

InitCsv ==
    /\ InitConfig
    /\ InitRun
    /\ retries = DefaultRetries
    /\ jsonErrIsRequestException = TRUE
    /\ pc = "write_csv"
    /\ attempt = 1
    /\ backoff = 1
    /\ outcomes = << [kind |-> "response", status |-> 200, json |-> TRUE] >>
    /\ sleeps = << >>
    /\ data \in RichPayloads

NextCsv ==
    \/ WriteCsvEnter
    \/ Makedirs
    \/ Open
    \/ WriteHeader
    \/ WriteRow
    \/ WriteCsvReturn
    \/ MainSuccess
    \/ MainExcept

SpecCsv == InitCsv /\ [][NextCsv]_vars

(***************************************************************************)
(* Vocabulary of the properties.                                           *)
(***************************************************************************)
\* the attempt got a response with a status in [200, 300)
Is2xx(o) == o.kind = "response" /\ IsSuccess(o.status)

\* a transport failure or a response with a status outside [200, 300)
Retryable(o) == o.kind = "transport" \/ (o.kind = "response" /\ ~IsSuccess(o.status))

\* a response in [200, 300) whose body is not valid JSON
Malformed(o) == Is2xx(o) /\ ~o.json

Warnings == {j \in 1..Len(log) : log[j].level = "WARNING"}

RetryableAttempts == {j \in 1..Len(outcomes) : Retryable(outcomes[j])}

AllRetryable == \A j \in 1..Len(outcomes) : Retryable(outcomes[j])

GetJsonOver == pc # "get_json"

RECURSIVE Pow2(_)
Pow2(e) == IF e = 0 THEN 1 ELSE 2 * Pow2(e - 1)

RECURSIVE TotalSleep(_)
TotalSleep(sl) == IF sl = << >> THEN 0 ELSE Head(sl).dur + TotalSleep(Tail(sl))

Range(f) == {f[j] : j \in DOMAIN f}

\* strictly increasing in Python's order on str
StrictlySorted(h) == \A j \in 1..(Len(h) - 1) : StrLess(h[j], h[j + 1])

\* write_csv has returned
Returned == n # -1

\* the number of rows write_csv is to write for an input of len rows
Kept(len) == IF max_rows > 0 THEN Min(len, max_rows) ELSE len

ArrayOfObjects(v) == v.t = "arr" /\ \A j \in 1..Len(v.items) : v.items[j].t = "obj"

(***************************************************************************)
(* C1.  get_json issues at most retries attempts; it returns the parsed    *)
(* body at the first attempt whose status is in [200, 300) and issues no   *)
(* attempt after such an attempt; if all retries attempts are retryable    *)
(* failures it issues exactly retries attempts and fails with no value.    *)
(***************************************************************************)
C1_BoundedAttemptsFirstSuccessReturns ==
    /\ Len(outcomes) <= retries
    /\ \A j \in 1..(Len(outcomes) - 1) : ~Is2xx(outcomes[j])
    /\ (outcomes # << >> /\ Is2xx(outcomes[Len(outcomes)]) /\ outcomes[Len(outcomes)].json)
          => (GetJsonOver /\ data # NoValue)
    /\ (GetJsonOver /\ AllRetryable)
          => (Len(outcomes) = retries /\ data = NoValue /\ exc = FetchFailed(retries))

(***************************************************************************)
(* C2.  A response in [200, 300) whose body is not valid JSON ends         *)
(* get_json at once: the parse failure propagates, no warning is logged    *)
(* for it, no sleep follows it and no further attempt is issued.           *)
(***************************************************************************)
C2_ParseFailureNotRetried ==
    \A j \in 1..Len(outcomes) :
        Malformed(outcomes[j]) =>
            /\ j = Len(outcomes)
            /\ GetJsonOver
            /\ exc = JsonValueError
            /\ data = NoValue
            /\ Cardinality(Warnings) = Cardinality(RetryableAttempts)
            /\ \A k \in 1..Len(sleeps) : sleeps[k].after # j

(***************************************************************************)
(* C3.  If a write fails after write_csv has started (makedirs, open, or   *)
(* writing the header or a row), the destination does not exist or still   *)
(* holds exactly the content it had before the run.                        *)
(***************************************************************************)
C3_FailedWriteLeavesNoPartialFile ==
    (writeCsvCalled /\ exc = OsError) => (~file.exists \/ file = file0)

(***************************************************************************)
(* C4.  When every one of the retries attempts is a retryable failure,     *)
(* write_csv is never entered, the destination file and directory are as   *)
(* before the run, and the pipeline ends with exit code 1 and exactly one  *)
(* "ERROR: " message carrying the fetch-exhausted text.                    *)
(***************************************************************************)
C4_FetchExhaustionExitsOneNoOutput ==
    (Len(outcomes) = retries /\ AllRetryable) =>
        /\ pc \in {"except", "exit"}
        /\ ~writeCsvCalled
        /\ file = file0
        /\ dirExists = dirExists0
        /\ data = NoValue
        /\ pc = "exit" =>
              /\ exitCode = 1
              /\ stdout = << >>
              /\ stderr = << [prefix |-> "ERROR: ", msg |-> FetchFailed(retries).msg,
                              arg |-> retries] >>

C4_Witness ==
    /\ pc = "exit"
    /\ retries = 2
    /\ Len(outcomes) = 2
    /\ \A j \in 1..2 : outcomes[j].kind = "response" /\ outcomes[j].status = 500
    /\ exitCode = 1
    /\ file0 = OldFile

(***************************************************************************)
(* C5.  The number of warning records equals the number of failed          *)
(* attempts, a failed attempt being a transport failure or a response      *)
(* outside [200, 300); with retries = 3, transport failures on attempts 1  *)
(* and 2 and success on attempt 3, exactly 2 warnings are logged and the   *)
(* value is returned.                                                      *)
(***************************************************************************)
C5_OneWarningPerFailedAttempt ==
    /\ Cardinality(Warnings) = Cardinality(RetryableAttempts)
    /\ (/\ retries = 3
        /\ Len(outcomes) = 3
        /\ outcomes[1].kind = "transport"
        /\ outcomes[2].kind = "transport"
        /\ Is2xx(outcomes[3]) /\ outcomes[3].json)
          => (Cardinality(Warnings) = 2 /\ data # NoValue)

(***************************************************************************)
(* C6 as stated.  For an array of objects and a write that succeeds, the   *)
(* header written is the sorted union of the keys of all objects of the    *)
(* input array, and every written row's keys are within the header.        *)
(***************************************************************************)
C6_HeaderIsUnionOfAllInputKeys ==
    (Returned /\ ArrayOfObjects(data)) =>
        /\ StrictlySorted(file.lines[1])
        /\ Range(file.lines[1]) = UNION {DOMAIN data.items[j].m : j \in 1..Len(data.items)}
        /\ \A j \in 1..n : DOMAIN data.items[j].m \subseteq Range(file.lines[1])

(***************************************************************************)
(* C6 amended.  For an array of objects and a write that succeeds, the     *)
(* header written is the sorted union of the keys of the objects that are  *)
(* written, the first min(L, max_rows) of them (all L when max_rows = 0),  *)
(* and every written row's keys are within the header.                     *)
(***************************************************************************)
C6_HeaderIsUnionOfWrittenKeys ==
    (Returned /\ ArrayOfObjects(data)) =>
        /\ StrictlySorted(file.lines[1])
        /\ Range(file.lines[1]) =
              UNION {DOMAIN data.items[j].m : j \in 1..Kept(Len(data.items))}
        /\ \A j \in 1..n : DOMAIN data.items[j].m \subseteq Range(file.lines[1])

C6_Witness ==
    /\ Returned
    /\ ArrayOfObjects(data)
    /\ Len(data.items) = 2
    /\ max_rows = 1
    /\ DOMAIN data.items[1].m = {<< "b" >>}
    /\ DOMAIN data.items[2].m = {<< "a" >>, << "b" >>}
    /\ file.lines[1] = << << "b" >> >>

(***************************************************************************)
(* C7.  For a non-empty row sequence of length L, write_csv writes exactly *)
(* the first min(L, max_rows) rows in their order when max_rows > 0 and    *)
(* all L rows when max_rows = 0, and returns the number of rows written.   *)
(***************************************************************************)
C7_WritesPrefixReturnsCount ==
    Returned =>
        LET all == to_rows(data)
            k == Kept(Len(all))
        IN  /\ n = k
            /\ Len(file.lines) = k + 1
            /\ \A j \in 1..k :
                  file.lines[j + 1] =
                      [c \in 1..Len(file.lines[1]) |->
                          CsvField(Get(all[j], file.lines[1][c]))]

C7_Witness ==
    /\ Returned
    /\ max_rows = 1
    /\ Len(to_rows(data)) = 2
    /\ to_rows(data)[1] # to_rows(data)[2]
    /\ n = 1
    /\ Len(file.lines) = 2

(***************************************************************************)
(* C8.  When the fetched value is the empty array, to_rows yields no row   *)
(* and write_csv fails with the "no rows" error before any file system     *)
(* effect: no directory and no file is created or changed, and the         *)
(* pipeline exits with code 1.                                             *)
(***************************************************************************)
C8_EmptyArrayFailsBeforeAnyOutput ==
    data = Arr(<< >>) =>
        /\ to_rows(data) = << >>
        /\ pc \in {"write_csv", "except", "exit"}
        /\ file = file0
        /\ dirExists = dirExists0
        /\ writeCsvCalled => exc = NoRowsError
        /\ pc = "exit" =>
              /\ exitCode = 1
              /\ stderr = << [prefix |-> "ERROR: ", msg |-> "No rows to write.", arg |-> 0] >>

C8_Witness ==
    /\ data = Arr(<< >>)
    /\ writeCsvCalled
    /\ pc = "exit"
    /\ exitCode = 1
    /\ ~dirExists0
    /\ outDir # EmptyText

(***************************************************************************)
(* C9.  Every written field is: empty if the row lacks the column's key,   *)
(* the string itself if the value is a string, and otherwise the JSON text *)
(* of the value, as the normaliser renders a scalar for its "value" field. *)
(***************************************************************************)
C9_FieldsAreJsonText ==
    \A j \in 2..Len(file.lines) :
        (file # file0 /\ writeCsvCalled) =>
            LET r == to_rows(data)[j - 1]
                hdr == file.lines[1]
            IN  \A c \in 1..Len(hdr) :
                    file.lines[j][c] =
                        IF hdr[c] \notin DOMAIN r THEN EmptyText
                        ELSE IF r[hdr[c]].t = "str" THEN r[hdr[c]].s
                        ELSE JsonDumps(r[hdr[c]])

(***************************************************************************)
(* C10.  A sleep occurs only after a retryable failure of attempt k with   *)
(* k < retries, and lasts 2^(k-1); none follows the last attempt or a      *)
(* successful one; a run sleeps at most retries - 1 times, for at most     *)
(* 2^(retries-1) - 1 in total.                                             *)
(***************************************************************************)
C10_BackoffSchedule ==
    /\ \A k \in 1..Len(sleeps) :
          /\ sleeps[k].after = k
          /\ k < retries
          /\ k <= Len(outcomes)
          /\ Retryable(outcomes[k])
          /\ sleeps[k].dur = Pow2(k - 1)
    /\ Len(sleeps) <= retries - 1
    /\ TotalSleep(sleeps) <= Pow2(retries - 1) - 1

(***************************************************************************)
(* The retry properties C1, C2, C5 and C10 are broken by one behaviour     *)
(* only, the retry of a response in [200, 300) whose body does not parse:  *)
(* where r.json() raises a ValueError that is no RequestException, each of *)
(* them holds.                                                             *)
(***************************************************************************)
RetryClaimsHoldWhereJsonErrorPropagates ==
    ~jsonErrIsRequestException =>
        /\ C1_BoundedAttemptsFirstSuccessReturns
        /\ C2_ParseFailureNotRetried
        /\ C5_OneWarningPerFailedAttempt
        /\ C10_BackoffSchedule

\* The schedule of C10 with "retryable" read as "retried by the loop": it
\* holds whatever r.json() raises.
BackoffScheduleOfRetriedAttempts ==
    /\ \A k \in 1..Len(sleeps) :
          /\ sleeps[k].after = k
          /\ k < retries
          /\ k <= Len(outcomes)
          /\ ~(Is2xx(outcomes[k]) /\ outcomes[k].json)
          /\ sleeps[k].dur = Pow2(k - 1)
    /\ Len(sleeps) <= retries - 1
    /\ TotalSleep(sleeps) <= Pow2(retries - 1) - 1

====
